---- MODULE Spec2Model ----
(***************************************************************************)
(* Queue/playback state of the music player: the solution useQueue hook    *)
(* (src/solution/src/hooks/useQueue.ts) and the Fisher-Yates shuffle it    *)
(* uses (src/app/src/utils/shuffle.ts), and the window of rows the         *)
(* solution useVirtualScroll hook derives                                  *)
(* (src/solution/src/hooks/useVirtualScroll.ts).                           *)
(*                                                                         *)
(* A Song is modelled by its identifier (the code compares songs by id);   *)
(* null is NoSong.  The four useState cells are the variables currentSong, *)
(* queue, originalQueue and isShuffled, holding the values of the last     *)
(* render.  A setState call does not change a cell: it enqueues an update  *)
(* on the cell's hook, and React applies the enqueued updates, hook by     *)
(* hook, in the next render.  The calls made by one event handler are one  *)
(* batch; `calls` is the batch of the most recent handler and `rendered`   *)
(* tells whether React has re-rendered since.                              *)
(*                                                                         *)
(* Spec is the hook as the application drives it: every handler makes one  *)
(* call and React renders before the next event.  SpecBatch lets a handler *)
(* make up to MaxBatch calls before the render, as the test "maintains     *)
(* queue integrity with rapid play next calls" does.  In a batch           *)
(* toggleShuffle reads the originalQueue of the last render (its           *)
(* useCallback closure), and the setQueue call inside its updater runs     *)
(* either inside setIsShuffled (React computes the state eagerly when no   *)
(* update is pending) or during the render, after the pending updates of   *)
(* the queue hook.                                                         *)
(*                                                                         *)
(* preShuffleQueue, inserted and wasShuffled are history variables: the    *)
(* queue as rendered just before shuffle was last enabled, the songs       *)
(* playNext has inserted since, and isShuffled as rendered before the most *)
(* recent handler ran.  The first two are kept by the one-call handlers of *)
(* Spec only; SpecBatch leaves them as they are.                           *)
(*                                                                         *)
(* SpecShuffle runs shuffle statement by statement on an input array.  The *)
(* two arrays of the function are objects of `memory`: "array" is the      *)
(* caller's, and resultRef names the object the local `result` refers to.  *)
(* loopIndex is the loop variable i and picks the values of j so far.      *)
(*                                                                         *)
(* SpecScroll is one useVirtualScroll instance: its props, its two state   *)
(* cells, the prevTotalItems ref and the scroll position of the container  *)
(* element.  Pixels are integers.  The effect that compares totalItems     *)
(* with prevTotalItems runs after every render in which totalItems,        *)
(* containerHeight or scrollTop has changed (effectPending), once the      *)
(* render is committed and before any later event is handled.              *)
(* The container is clientHeight pixels high and keeps its scroll position *)
(* domScrollTop within its content, the totalHeight of the last render.    *)
(* effectOutcome is a history variable: what the item-count effect did, if *)
(* it was the last step, and whether a measurement was.                    *)
(* SpecZeroHeight is the same hook with itemHeight 0, its derived values   *)
(* computed as JavaScript numbers.  SpecScrollBatch lets several scroll    *)
(* events be handled before React renders; scrollUpdates holds their       *)
(* pending setScrollTop calls.  SpecInstances runs the hook beside a       *)
(* second instance, otherInstance.                                         *)
(* The specifications share the variables; each leaves the variables of    *)
(* the others at their initial values.                                     *)
(***************************************************************************)
EXTENDS Integers, Sequences, FiniteSets, TLC

\* ---- bounds ----
NumSongs == 3     \* identifiers 1..NumSongs
MaxSrc == 3       \* longest source list handed to playSong
MaxQueue == 3     \* longest queue; playNext is not offered beyond it
MaxBatch == 3     \* most calls one event handler makes before React renders
MaxItems == 12     \* largest totalItems
MaxItemHeight == 2  \* itemHeight is 1..MaxItemHeight pixels
MaxBuffer == 1    \* bufferCount is 0..MaxBuffer, or the default
MaxHeight == 3    \* tallest container, in pixels
MaxScrollTop == 12  \* largest scroll offset, in pixels
MaxNotifications == 3  \* most scroll events handled before React renders

Songs == 1..NumSongs
NoSong == 0

VARIABLES currentSong, queue, originalQueue, isShuffled, calls, rendered,
          preShuffleQueue, inserted, wasShuffled,
          memory, resultRef, loopIndex, picks, pc,
          itemHeight, totalItems, bufferCount, scrollTop, containerHeight,
          prevTotalItems, attached, domScrollTop, effectPending,
          clientHeight, scrollUpdates, effectOutcome, otherInstance

queueVars == <<currentSong, queue, originalQueue, isShuffled, calls, rendered,
               preShuffleQueue, inserted, wasShuffled>>
shuffleVars == <<memory, resultRef, loopIndex, picks, pc>>
scrollVars == <<itemHeight, totalItems, bufferCount, scrollTop, containerHeight,
                prevTotalItems, attached, domScrollTop, effectPending,
                clientHeight, scrollUpdates, effectOutcome, otherInstance>>
vars == <<queueVars, shuffleVars, scrollVars>>

Min(a, b) == IF a < b THEN a ELSE b
Max(a, b) == IF a > b THEN a ELSE b

SeqsUpTo(S, n) == UNION {[1..k -> S] : k \in 0..n}

\* Source lists: the Track identifier is unique within a sequence.
Sources ==
  {s \in SeqsUpTo(Songs, MaxSrc) :
     \A i, k \in 1..Len(s) : i # k => s[i] # s[k]}

\* ---- Array helpers, 0-based as in the code ----

\* Array.prototype.findIndex((s) => s.id === id): first match, or -1.
FindIndex(arr, id) ==
  IF \E i \in 1..Len(arr) : arr[i] = id
  THEN (CHOOSE i \in 1..Len(arr) :
          arr[i] = id /\ \A k \in 1..(i - 1) : arr[k] # id) - 1
  ELSE -1

\* Array.prototype.slice(start): a negative start counts from the end.
Slice(arr, start) ==
  LET len == Len(arr)
      from == IF start < 0 THEN Max(len + start, 0) ELSE Min(start, len)
  IN  SubSeq(arr, from + 1, len)

\* ---- shuffle ----

\* A swap that writes one side only.
SwapOverwrite(arr, a, b) == [arr EXCEPT ![a] = arr[b]]
Swap(arr, a, b) == [arr EXCEPT ![a] = arr[b], ![b] = arr[a]]

\* Math.floor(Math.random() * i): the last position is never picked.
RandomIndexExclusive(i) == 0..(i - 1)
\* The values Math.floor(Math.random() * (i + 1)) can take.
RandomIndex(i) == 0..i

\* The choices of one run over an array of length n: rnd[i] is the value of
\* j at loop index i, for i = n-1 down to 1.
RandomChoices(n) ==
  {rnd \in [1..(n - 1) -> 0..(n - 1)] :
     \A i \in 1..(n - 1) : rnd[i] \in RandomIndex(i)}

RECURSIVE FisherYates(_, _, _)
FisherYates(result, i, rnd) ==
  IF i > 0
  THEN FisherYates(Swap(result, i + 1, rnd[i] + 1), i - 1, rnd)
  ELSE result

\* shuffle(array) under the random choices rnd; the input is not changed.
shuffle(array, rnd) == FisherYates(array, Len(array) - 1, rnd)

\* A shuffle that fails on an empty array: it has no outcome there.
ShuffleOutcomesThrowOnEmpty(array) ==
  IF array = <<>> THEN {}
  ELSE {shuffle(array, rnd) : rnd \in RandomChoices(Len(array))}

\* Every result shuffle(array) can return.
ShuffleOutcomes(array) ==
  {shuffle(array, rnd) : rnd \in RandomChoices(Len(array))}

\* ---- what each operation of useQueue enqueues ----

\* A call of an operation of the hook, as an event handler makes it.  eager
\* says whether React ran the isShuffled updater of toggleShuffle inside the
\* setIsShuffled call itself (it does so only when the component has no
\* update pending) instead of in the next render.
Call(op, song, src, eager) ==
  [op |-> op, song |-> song, src |-> src, eager |-> eager]

\* Updates of the queue and originalQueue hooks.
SetTo(v) == [k |-> "set", v |-> v, x |-> NoSong]
Cons(x) == [k |-> "cons", v |-> <<>>, x |-> x]
Shuffled == [k |-> "shuffle", v |-> <<>>, x |-> NoSong]
\* Updates of the isShuffled hook: a value, or the updater of toggleShuffle,
\* which closes over the originalQueue of the render that created it.
SetFlag(b) == [k |-> "set", b |-> b, v |-> <<>>]
Toggle(closure) == [k |-> "toggle", b |-> FALSE, v |-> closure]

\* playSong: const newQueue = sourceSongs.slice(clickedIndex + 1)
NewQueueOffByOne(song, sourceSongs) ==
  Slice(sourceSongs, FindIndex(sourceSongs, song))
NewQueue(song, sourceSongs) ==
  Slice(sourceSongs, FindIndex(sourceSongs, song) + 1)

\* The body of the updater toggleShuffle hands to setIsShuffled, run on
\* prev: the setQueue call it makes and the value it returns.
ToggleInner(prev, closure) == IF ~prev THEN Shuffled ELSE SetTo(closure)
\* An updater that returns true on both branches.
ToggleResultStuck(prev) == TRUE
ToggleResult(prev) == ~prev

\* The updates one call enqueues on each hook, in the order of the code.
CurrentSongUpdates(c) ==
  IF c.op = "playSong" THEN <<c.song>> ELSE <<>>

QueueUpdates(c) ==
  CASE c.op = "playSong" -> <<SetTo(NewQueue(c.song, c.src))>>
    [] c.op = "playNext" -> <<Cons(c.song)>>
    [] c.op = "toggleShuffle" ->
         IF c.eager THEN <<ToggleInner(isShuffled, originalQueue)>> ELSE <<>>

\* playSong without its setOriginalQueue(newQueue).
OriginalQueueUpdatesNoReset(c) ==
  CASE c.op = "playSong" -> <<>>
    [] c.op = "playNext" -> <<Cons(c.song)>>
    [] c.op = "toggleShuffle" -> <<>>
\* playNext that updates originalQueue only while not shuffled.
OriginalQueueUpdatesUnlessShuffled(c) ==
  CASE c.op = "playSong" -> <<SetTo(NewQueue(c.song, c.src))>>
    [] c.op = "playNext" -> IF isShuffled THEN <<>> ELSE <<Cons(c.song)>>
    [] c.op = "toggleShuffle" -> <<>>
OriginalQueueUpdates(c) ==
  CASE c.op = "playSong" -> <<SetTo(NewQueue(c.song, c.src))>>
    [] c.op = "playNext" -> <<Cons(c.song)>>
    [] c.op = "toggleShuffle" -> <<>>

\* playSong without its setIsShuffled(false).
IsShuffledUpdatesNoReset(c) ==
  CASE c.op = "playSong" -> <<>>
    [] c.op = "playNext" -> <<>>
    [] c.op = "toggleShuffle" ->
         IF c.eager THEN <<SetFlag(ToggleResult(isShuffled))>>
         ELSE <<Toggle(originalQueue)>>
\* playNext that also calls setIsShuffled(false).
IsShuffledUpdatesPlayNextResets(c) ==
  CASE c.op = "playSong" -> <<SetFlag(FALSE)>>
    [] c.op = "playNext" -> <<SetFlag(FALSE)>>
    [] c.op = "toggleShuffle" ->
         IF c.eager THEN <<SetFlag(ToggleResult(isShuffled))>>
         ELSE <<Toggle(originalQueue)>>
IsShuffledUpdates(c) ==
  CASE c.op = "playSong" -> <<SetFlag(FALSE)>>
    [] c.op = "playNext" -> <<>>
    [] c.op = "toggleShuffle" ->
         IF c.eager THEN <<SetFlag(ToggleResult(isShuffled))>>
         ELSE <<Toggle(originalQueue)>>

\* The updates the call c enqueues on the hook of the named state cell.
Updates(hook, c) ==
  CASE hook = "currentSong" -> CurrentSongUpdates(c)
    [] hook = "queue" -> QueueUpdates(c)
    [] hook = "originalQueue" -> OriginalQueueUpdates(c)
    [] hook = "isShuffled" -> IsShuffledUpdates(c)

\* The pending updates of a hook after the calls cs, in call order.
RECURSIVE Pending(_, _)
Pending(hook, cs) ==
  IF cs = <<>> THEN <<>>
  ELSE Updates(hook, Head(cs)) \o Pending(hook, Tail(cs))

\* ---- the render: React applies each hook's pending updates in order ----

RECURSIVE ReduceCurrentSong(_, _)
ReduceCurrentSong(state, ups) ==
  IF ups = <<>> THEN state ELSE ReduceCurrentSong(Head(ups), Tail(ups))

\* playNext inserting at the end instead of the front.
ApplyUpdateAtEnd(state, u) ==
  CASE u.k = "set" -> {u.v}
    [] u.k = "cons" -> {Append(state, u.x)}
    [] u.k = "shuffle" -> ShuffleOutcomes(state)
\* One update of a queue hook applied to state: every value it can produce.
ApplyUpdate(state, u) ==
  CASE u.k = "set" -> {u.v}
    [] u.k = "cons" -> {<<u.x>> \o state}
    [] u.k = "shuffle" -> ShuffleOutcomes(state)

\* A render that applies only the last pending update of a hook.
ReduceQueueLastOnly(states, ups) ==
  IF ups = <<>> THEN states
  ELSE UNION {ApplyUpdate(s, ups[Len(ups)]) : s \in states}
RECURSIVE ReduceQueue(_, _)
ReduceQueue(states, ups) ==
  IF ups = <<>> THEN states
  ELSE ReduceQueue(UNION {ApplyUpdate(s, Head(ups)) : s \in states}, Tail(ups))

\* The isShuffled hook: its new value, and the setQueue calls its updaters
\* make while the component renders (render-phase updates of the queue hook,
\* which React applies in a second pass after the pending ones).
RECURSIVE ReduceIsShuffled(_, _, _)
ReduceIsShuffled(state, ups, inner) ==
  IF ups = <<>> THEN [state |-> state, inner |-> inner]
  ELSE LET u == Head(ups) IN
       IF u.k = "set"
       THEN ReduceIsShuffled(u.b, Tail(ups), inner)
       ELSE ReduceIsShuffled(ToggleResult(state), Tail(ups),
                             Append(inner, ToggleInner(state, u.v)))

\* The state of the render that follows the calls cs.
Commit(cs) ==
  LET flag == ReduceIsShuffled(isShuffled, Pending("isShuffled", cs), <<>>)
  IN  /\ currentSong' = ReduceCurrentSong(currentSong, Pending("currentSong", cs))
      /\ queue' \in ReduceQueue({queue}, Pending("queue", cs) \o flag.inner)
      /\ originalQueue' \in ReduceQueue({originalQueue}, Pending("originalQueue", cs))
      /\ isShuffled' = flag.state

\* ---- useQueue ----

\* No shuffle call is running.
ShuffleIdle ==
  /\ memory = [array |-> <<>>, result |-> <<>>]
  /\ resultRef = "none"
  /\ loopIndex = 0
  /\ picks = <<>>
  /\ pc = "idle"

\* The bufferCount of a caller that passes none.
DefaultBufferCount == 5

\* No list is mounted.
\* A second useVirtualScroll instance that is not rendered: its props, its
\* cells and the scroll position of its container.
IdleInstance ==
  [itemHeight |-> 1, totalItems |-> 0, bufferCount |-> DefaultBufferCount,
   scrollTop |-> 0, containerHeight |-> 0, prevTotalItems |-> 0,
   domScrollTop |-> 0]

ScrollIdle ==
  /\ otherInstance = IdleInstance
  /\ itemHeight = 1
  /\ totalItems = 0
  /\ bufferCount = DefaultBufferCount
  /\ scrollTop = 0
  /\ containerHeight = 0
  /\ prevTotalItems = 0
  /\ attached = FALSE
  /\ domScrollTop = 0
  /\ effectPending = FALSE
  /\ clientHeight = 0
  /\ scrollUpdates = <<>>
  /\ effectOutcome = "none"

QueueInit ==
  /\ currentSong = NoSong
  /\ queue = <<>>
  /\ originalQueue = <<>>
  /\ isShuffled = FALSE
  /\ calls = <<>>
  /\ rendered = TRUE
  /\ preShuffleQueue = <<>>
  /\ inserted = <<>>
  /\ wasShuffled = FALSE

Init == QueueInit /\ ShuffleIdle /\ ScrollIdle

\* What the call c adds to the history of the current shuffle: enabling
\* shuffle records the rendered queue, playNext under shuffle records its
\* song, disabling shuffle keeps the record of the period it ends, and any
\* other call clears it.
Observe(c) ==
  CASE c.op = "toggleShuffle" /\ ~isShuffled ->
         preShuffleQueue' = queue /\ inserted' = <<>>
    [] c.op = "toggleShuffle" /\ isShuffled ->
         UNCHANGED <<preShuffleQueue, inserted>>
    [] c.op = "playNext" /\ isShuffled ->
         inserted' = Append(inserted, c.song) /\ UNCHANGED preShuffleQueue
    [] OTHER ->
         preShuffleQueue' = <<>> /\ inserted' = <<>>

\* An event handler that makes one call, and the render that follows it.
Handle(c) ==
  /\ rendered
  /\ Commit(<<c>>)
  /\ calls' = <<c>>
  /\ rendered' = TRUE
  /\ Observe(c)
  /\ wasShuffled' = isShuffled
  /\ UNCHANGED <<shuffleVars, scrollVars>>

playSong(song, sourceSongs) == Handle(Call("playSong", song, sourceSongs, FALSE))

playNext(song) ==
  /\ Len(queue) < MaxQueue
  /\ Len(originalQueue) < MaxQueue
  /\ Handle(Call("playNext", song, <<>>, FALSE))

toggleShuffle(eager) == Handle(Call("toggleShuffle", NoSong, <<>>, eager))

Next ==
  \/ \E song \in Songs, sourceSongs \in Sources : playSong(song, sourceSongs)
  \/ \E song \in Songs : playNext(song)
  \/ \E eager \in BOOLEAN : toggleShuffle(eager)

Spec == Init /\ [][Next]_vars

\* ---- event handlers that make several calls before React renders ----

\* The playlist the batching handlers play from.
Playlist == [i \in 1..Min(MaxSrc, NumSongs) |-> i]

\* The calls of the running handler (none once React has rendered).
Running == IF rendered THEN <<>> ELSE calls

\* The number of playNext calls among cs.
RECURSIVE PlayNextCalls(_)
PlayNextCalls(cs) ==
  IF cs = <<>> THEN 0
  ELSE (IF Head(cs).op = "playNext" THEN 1 ELSE 0) + PlayNextCalls(Tail(cs))

\* A handler makes the call c: the hook's state stays that of the last
\* render, the updates of c are pending.
Enqueue(c) ==
  /\ Len(Running) < MaxBatch
  /\ calls' = Append(Running, c)
  /\ rendered' = FALSE
  /\ UNCHANGED <<currentSong, queue, originalQueue, isShuffled>>
  /\ UNCHANGED <<preShuffleQueue, inserted>>
  /\ wasShuffled' = IF rendered THEN isShuffled ELSE wasShuffled
  /\ UNCHANGED <<shuffleVars, scrollVars>>

callPlaySong(song) == Enqueue(Call("playSong", song, Playlist, FALSE))

callPlayNext(song) ==
  /\ Len(queue) + PlayNextCalls(Running) < MaxQueue
  /\ Len(originalQueue) + PlayNextCalls(Running) < MaxQueue
  /\ Enqueue(Call("playNext", song, <<>>, FALSE))

\* React runs the updater inside the call only when no update is pending.
callToggleShuffle(eager) ==
  /\ eager => Running = <<>>
  /\ Enqueue(Call("toggleShuffle", NoSong, <<>>, eager))

\* The handler has returned: React renders and applies the pending updates.
Render ==
  /\ ~rendered
  /\ Commit(calls)
  /\ rendered' = TRUE
  /\ UNCHANGED <<calls, preShuffleQueue, inserted, wasShuffled>>
  /\ UNCHANGED <<shuffleVars, scrollVars>>

NextBatch ==
  \/ \E song \in Songs : callPlaySong(song)
  \/ \E song \in Songs : callPlayNext(song)
  \/ \E eager \in BOOLEAN : callToggleShuffle(eager)
  \/ Render

SpecBatch == Init /\ [][NextBatch]_vars

\* ---- shuffle, statement by statement ----

\* const result = array: no copy, result is the caller's array.
ResultObjectAliased == "array"
\* const result = [...array]: result is a new array object.
ResultObject == "result"

\* The arrays shuffle is called with.
ShuffleArrays == SeqsUpTo(Songs, MaxQueue)

\* shuffle has been called with an array.
InitShuffle ==
  /\ QueueInit
  /\ ScrollIdle
  /\ memory \in {[array |-> a, result |-> <<>>] : a \in ShuffleArrays}
  /\ resultRef = "none"
  /\ loopIndex = 0
  /\ picks = <<>>
  /\ pc = "copy"

\* const result = [...array], and the loop's let i = result.length - 1.
ShuffleCopy ==
  /\ pc = "copy"
  /\ resultRef' = ResultObject
  /\ memory' = [memory EXCEPT ![ResultObject] = memory.array]
  /\ loopIndex' = Len(memory.array) - 1
  /\ pc' = "loop"
  /\ UNCHANGED <<picks, queueVars, scrollVars>>

\* One round of the loop with the random index j: the swap, then i--.
ShuffleSwap(j) ==
  /\ pc = "loop"
  /\ loopIndex > 0
  /\ memory' = [memory EXCEPT ![resultRef] = Swap(@, loopIndex + 1, j + 1)]
  /\ loopIndex' = loopIndex - 1
  /\ picks' = Append(picks, j)
  /\ UNCHANGED <<resultRef, pc, queueVars, scrollVars>>

\* The loop condition i > 0 fails: return result.
ShuffleReturn ==
  /\ pc = "loop"
  /\ ~(loopIndex > 0)
  /\ pc' = "done"
  /\ UNCHANGED <<memory, resultRef, loopIndex, picks, queueVars, scrollVars>>

NextShuffle ==
  \/ ShuffleCopy
  \/ \E j \in RandomIndex(loopIndex) : ShuffleSwap(j)
  \/ ShuffleReturn

SpecShuffle == InitShuffle /\ [][NextShuffle]_vars

\* ---- useVirtualScroll ----

\* Math.floor(a / b) and Math.ceil(a / b) for a >= 0 and b > 0.
Floor(a, b) == a \div b
Ceil(a, b) == -((-a) \div b)

\* The row count used until the container has been measured.
FallbackVisibleCount == 10

\* The rows that fill the measured height, none while nothing is measured.
visibleCountNoFallback == Ceil(containerHeight, itemHeight)

visibleCount ==
  IF containerHeight > 0 THEN Ceil(containerHeight, itemHeight)
  ELSE FallbackVisibleCount

\* The first row without the clamp at the top of the list.
startIndexUnclamped == Floor(scrollTop, itemHeight) - bufferCount
startIndex == Max(0, Floor(scrollTop, itemHeight) - bufferCount)

\* The endIndex of the starter hook: no buffer below the visible rows.
endIndexMissingBuffer == Min(totalItems - 1, startIndex + visibleCount)
\* An endIndex that is not limited by the visible rows.
endIndexWholeList == totalItems - 1
endIndex ==
  Min(totalItems - 1, Floor(scrollTop, itemHeight) + visibleCount + bufferCount)

\* The endIndex the interviewer notes give as the fix of the starter hook:
\* the buffer is added to startIndex, which has the buffer taken off.
endIndexExpectedFix == Min(totalItems - 1, startIndex + visibleCount + bufferCount)

offsetY == startIndex * itemHeight
\* The height of the rows of the window alone.
totalHeightOfWindow == (endIndex - startIndex + 1) * itemHeight
totalHeight == totalItems * itemHeight

BufferCounts == (0..MaxBuffer) \cup {DefaultBufferCount}

\* The props, which no action changes, the variables only the handlers of
\* several scroll events use, and the other instance.
fixedVars == <<itemHeight, bufferCount, attached, scrollUpdates, otherInstance>>

\* The first render of a list.  The container element, when the ref is
\* attached to one, has some height, 0 while it is not laid out.
InitHook ==
  /\ QueueInit
  /\ ShuffleIdle
  /\ itemHeight \in 1..MaxItemHeight
  /\ totalItems \in 0..MaxItems
  /\ bufferCount \in BufferCounts
  /\ attached \in BOOLEAN
  /\ scrollTop = 0
  /\ containerHeight = 0
  /\ prevTotalItems = totalItems
  /\ domScrollTop = 0
  /\ effectPending = FALSE
  /\ clientHeight \in (IF attached THEN 0..MaxHeight ELSE {0})
  /\ scrollUpdates = <<>>
  /\ effectOutcome = "none"

\* One instance alone.
InitScroll == InitHook /\ otherInstance = IdleInstance

\* The largest scroll position of the container when it is height pixels
\* high and its content is the list of n rows.
MaxDomScrollTop(n, height) == Max(0, n * itemHeight - height)

\* The position of the container after container.scrollTop = value: the
\* element keeps the position within its scrollable range.
DomScrollTop(value) ==
  Min(Max(value, 0), MaxDomScrollTop(totalItems, clientHeight))

\* A scroll event of the container, scrolled to offset.
onScroll(offset) ==
  /\ ~effectPending
  /\ attached => offset <= MaxDomScrollTop(totalItems, clientHeight)
  /\ domScrollTop' = offset
  /\ scrollTop' = offset
  /\ effectPending' = (offset # scrollTop)
  /\ UNCHANGED <<totalItems, containerHeight, prevTotalItems, clientHeight,
                 fixedVars>>
  /\ effectOutcome' = "none"
  /\ UNCHANGED <<queueVars, shuffleVars>>

\* A measurement that stores whatever height it reads.
MeasuredHeightAny(height) == height
\* containerHeight after a measurement that read height: setContainerHeight
\* is called for a positive height only.
MeasuredHeight(height) == IF height > 0 THEN height ELSE containerHeight

\* updateHeight: the measurement made on mount, by the timer and by the
\* animation frames.
updateHeight ==
  /\ attached
  /\ ~effectPending
  /\ LET height == clientHeight
     IN  /\ containerHeight' = MeasuredHeight(height)
         /\ effectPending' = (MeasuredHeight(height) # containerHeight)
  /\ UNCHANGED <<totalItems, scrollTop, prevTotalItems, domScrollTop,
                 clientHeight, fixedVars>>
  /\ effectOutcome' = "measured"
  /\ UNCHANGED <<queueVars, shuffleVars>>

\* The container is laid out height pixels high, and the ResizeObserver
\* callback runs for it.
resizeObserver(height) ==
  /\ attached
  /\ ~effectPending
  /\ height # clientHeight
  /\ clientHeight' = height
  /\ domScrollTop' = Min(domScrollTop, MaxDomScrollTop(totalItems, height))
  /\ containerHeight' = MeasuredHeight(height)
  /\ effectPending' = (MeasuredHeight(height) # containerHeight)
  /\ UNCHANGED <<totalItems, scrollTop, prevTotalItems, fixedVars>>
  /\ effectOutcome' = "measured"
  /\ UNCHANGED <<queueVars, shuffleVars>>

\* The caller renders the hook with another totalItems; the content of the
\* container gets the new totalHeight.
rerender(n) ==
  /\ ~effectPending
  /\ n # totalItems
  /\ totalItems' = n
  /\ effectPending' = TRUE
  /\ domScrollTop' = IF attached
                     THEN Min(domScrollTop, MaxDomScrollTop(n, clientHeight))
                     ELSE domScrollTop
  /\ UNCHANGED <<scrollTop, containerHeight, prevTotalItems, clientHeight,
                 fixedVars>>
  /\ effectOutcome' = "none"
  /\ UNCHANGED <<queueVars, shuffleVars>>

\* The effect on totalItems without its setScrollTop(0).
ResetScrollTopKept(maxScrollTop) == scrollTop
\* The scrollTop the effect on totalItems leaves.
ResetScrollTop(maxScrollTop) == IF scrollTop > maxScrollTop THEN 0 ELSE scrollTop

\* An effect that takes every run for a change of totalItems.
ItemCountChangedAlways == TRUE
\* The test the effect begins with: totalItems is not the one it last saw.
ItemCountChanged == totalItems # prevTotalItems

\* The effect on totalItems, and the render its setScrollTop(0) causes.  It
\* runs after every render in which totalItems, containerHeight or
\* scrollTop has changed.
resetScrollEffect ==
  /\ effectPending
  /\ IF ItemCountChanged
     THEN LET maxScrollTop == Max(0, totalItems * itemHeight - containerHeight)
          IN  /\ scrollTop' = ResetScrollTop(maxScrollTop)
              /\ domScrollTop' = IF scrollTop > maxScrollTop /\ attached
                                 THEN DomScrollTop(0)
                                 ELSE domScrollTop
              /\ prevTotalItems' = totalItems
              /\ effectOutcome' = IF scrollTop > maxScrollTop
                                  THEN "reset" ELSE "kept"
     ELSE /\ UNCHANGED <<scrollTop, domScrollTop, prevTotalItems>>
          /\ effectOutcome' = IF effectOutcome = "measured"
                              THEN "skipped after measuring" ELSE "skipped"
  /\ effectPending' = FALSE
  /\ UNCHANGED <<totalItems, containerHeight, clientHeight, fixedVars>>
  /\ UNCHANGED <<queueVars, shuffleVars>>

\* endIndex as the hook that has scrollToIndex derives it: visibleCount rows
\* from startIndex on, no buffer below them.
starterEndIndex == Min(totalItems - 1, startIndex + visibleCount)

\* scrollToIndex(index) of the hook the library list uses, called for a row
\* of the list.
scrollToIndex(index) ==
  /\ ~effectPending
  /\ IF ~attached
     THEN UNCHANGED <<scrollTop, domScrollTop, effectPending>>
     ELSE LET targetScrollTop == index * itemHeight
          IN  /\ domScrollTop' = DomScrollTop(targetScrollTop)
              /\ scrollTop' = targetScrollTop
              /\ effectPending' = (targetScrollTop # scrollTop)
  /\ UNCHANGED <<totalItems, containerHeight, prevTotalItems, clientHeight,
                 fixedVars>>
  /\ effectOutcome' = "none"
  /\ UNCHANGED <<queueVars, shuffleVars>>

NextScroll ==
  \/ \E offset \in 0..MaxScrollTop : onScroll(offset)
  \/ updateHeight
  \/ \E height \in 0..MaxHeight : resizeObserver(height)
  \/ \E n \in 0..MaxItems : rerender(n)
  \/ resetScrollEffect
  \/ \E index \in 0..(totalItems - 1) : scrollToIndex(index)

SpecScroll == InitScroll /\ [][NextScroll]_vars

\* ---- several scroll events before a render ----
\* The scrollTop cell after React has applied the first of the pending
\* setScrollTop calls only.
ReduceScrollTopFirstOnly(base, updates) ==
  IF updates = <<>> THEN base ELSE Head(updates)
\* The scrollTop cell after React has applied the pending setScrollTop
\* calls in the order they were made; each puts a value in the cell.
RECURSIVE ReduceScrollTop(_, _)
ReduceScrollTop(base, updates) ==
  IF updates = <<>> THEN base
  ELSE ReduceScrollTop(Head(updates), Tail(updates))

\* The hook as the test "handles rapid scroll events" drives it: the ref is
\* not attached and nothing is measured.
InitScrollBatch == InitScroll /\ ~attached

\* onScroll for a scroll event at offset, React not yet rendering.
notifyScroll(offset) ==
  /\ Len(scrollUpdates) < MaxNotifications
  /\ attached => offset <= MaxDomScrollTop(totalItems, clientHeight)
  /\ domScrollTop' = offset
  /\ scrollUpdates' = Append(scrollUpdates, offset)
  /\ effectOutcome' = "none"
  /\ UNCHANGED <<itemHeight, totalItems, bufferCount, scrollTop,
                 containerHeight, prevTotalItems, attached, effectPending,
                 clientHeight, otherInstance>>
  /\ UNCHANGED <<queueVars, shuffleVars>>

\* React renders the hook with the pending setScrollTop calls applied.  The
\* effect that follows finds totalItems as it last saw it and does nothing.
renderScroll ==
  /\ scrollUpdates # <<>>
  /\ scrollTop' = ReduceScrollTop(scrollTop, scrollUpdates)
  /\ scrollUpdates' = <<>>
  /\ effectOutcome' = "none"
  /\ UNCHANGED <<itemHeight, totalItems, bufferCount, containerHeight,
                 prevTotalItems, attached, domScrollTop, effectPending,
                 clientHeight, otherInstance>>
  /\ UNCHANGED <<queueVars, shuffleVars>>

NextScrollBatch ==
  \/ \E offset \in 0..MaxScrollTop : notifyScroll(offset)
  \/ renderScroll

SpecScrollBatch == InitScrollBatch /\ [][NextScrollBatch]_vars

\* ---- two instances of the hook ----
\* The variables above are one instance (the library panel); otherInstance
\* is a second one (the queue panel) in a state of its own.
ThisInstance ==
  [itemHeight |-> itemHeight, totalItems |-> totalItems,
   bufferCount |-> bufferCount, scrollTop |-> scrollTop,
   containerHeight |-> containerHeight, prevTotalItems |-> prevTotalItems,
   domScrollTop |-> domScrollTop]

\* The cells an instance would not own if scrollTop were kept outside the
\* hook function.
SharedCellsScrollTop == {"scrollTop"}
\* The cells that are not an instance's own: the hook keeps its state in
\* useState and useRef cells of the calling component, none in the module.
SharedCells == {}

\* The other instance as its component reads it.
OtherInstance ==
  [c \in DOMAIN otherInstance |->
     IF c \in SharedCells THEN ThisInstance[c] ELSE otherInstance[c]]

\* visibleCount, startIndex and endIndex of the instance h.
VisibleCountOf(h) ==
  IF h.containerHeight > 0 THEN Ceil(h.containerHeight, h.itemHeight)
  ELSE FallbackVisibleCount
StartIndexOf(h) == Max(0, Floor(h.scrollTop, h.itemHeight) - h.bufferCount)
EndIndexOf(h) ==
  Min(h.totalItems - 1,
      Floor(h.scrollTop, h.itemHeight) + VisibleCountOf(h) + h.bufferCount)

\* States of the queue panel: an empty or a full list, at the top or
\* scrolled, measured or not.
OtherInstances ==
  {h \in [itemHeight : {1}, totalItems : {0, MaxItems},
          bufferCount : {DefaultBufferCount}, scrollTop : {0, 4, 9},
          containerHeight : {0, MaxHeight}, prevTotalItems : {0, MaxItems},
          domScrollTop : {0, 4, 9}] :
     /\ h.prevTotalItems = h.totalItems
     /\ h.domScrollTop = h.scrollTop
     /\ h.scrollTop <= Max(0, h.totalItems * h.itemHeight - h.containerHeight)}

\* The library panel, mounted, beside a queue panel in one of its states.
InitInstances ==
  /\ InitHook
  /\ attached
  /\ bufferCount = DefaultBufferCount
  /\ otherInstance \in OtherInstances

SpecInstances == InitInstances /\ [][NextScroll]_vars

\* ---- the derived values as JavaScript numbers ----
\* With itemHeight = 0 the divisions of the hook are divisions by zero,
\* which JavaScript answers with NaN or Infinity.  A JavaScript number is
\* modelled as a record: an integer, NaN or (positive) Infinity.  Operands
\* are never negative infinity here: scrollTop, containerHeight, bufferCount
\* and totalItems are integers and no divisor is negative.
Num(n) == [kind |-> "num", n |-> n]
NaN == [kind |-> "NaN", n |-> 0]
Infinity == [kind |-> "Infinity", n |-> 0]
IsNum(x) == x.kind = "num"

\* Math.floor(a / b) and Math.ceil(a / b) for integers a >= 0, b >= 0.
JsFloorDiv(a, b) ==
  IF b # 0 THEN Num(Floor(a, b)) ELSE IF a = 0 THEN NaN ELSE Infinity
JsCeilDiv(a, b) ==
  IF b # 0 THEN Num(Ceil(a, b)) ELSE IF a = 0 THEN NaN ELSE Infinity

\* x + y, x - y and x * y, where y is not infinite in x - y.
JsAdd(x, y) ==
  IF x.kind = "NaN" \/ y.kind = "NaN" THEN NaN
  ELSE IF x.kind = "Infinity" \/ y.kind = "Infinity" THEN Infinity
  ELSE Num(x.n + y.n)
JsSub(x, y) ==
  IF x.kind = "NaN" \/ y.kind = "NaN" THEN NaN
  ELSE IF x.kind = "Infinity" THEN Infinity
  ELSE Num(x.n - y.n)
JsMul(x, y) ==
  IF x.kind = "NaN" \/ y.kind = "NaN" THEN NaN
  ELSE IF x.kind = "Infinity" THEN (IF y.kind = "num" /\ y.n = 0 THEN NaN ELSE Infinity)
  ELSE IF y.kind = "Infinity" THEN (IF x.n = 0 THEN NaN ELSE Infinity)
  ELSE Num(x.n * y.n)

\* Math.max(x, y) and Math.min(x, y): NaN if either argument is NaN.
JsMax(x, y) ==
  IF x.kind = "NaN" \/ y.kind = "NaN" THEN NaN
  ELSE IF x.kind = "Infinity" \/ y.kind = "Infinity" THEN Infinity
  ELSE Num(Max(x.n, y.n))
JsMin(x, y) ==
  IF x.kind = "NaN" \/ y.kind = "NaN" THEN NaN
  ELSE IF x.kind = "Infinity" THEN y
  ELSE IF y.kind = "Infinity" THEN x
  ELSE Num(Min(x.n, y.n))

\* The values the hook returns, for any itemHeight >= 0.
jsVisibleCount ==
  IF containerHeight > 0 THEN JsCeilDiv(containerHeight, itemHeight)
  ELSE Num(FallbackVisibleCount)
jsStartIndex ==
  JsMax(Num(0), JsSub(JsFloorDiv(scrollTop, itemHeight), Num(bufferCount)))
jsEndIndex ==
  JsMin(Num(totalItems - 1),
        JsAdd(JsAdd(JsFloorDiv(scrollTop, itemHeight), jsVisibleCount),
              Num(bufferCount)))
jsOffsetY == JsMul(jsStartIndex, Num(itemHeight))
jsTotalHeight == JsMul(Num(totalItems), Num(itemHeight))

\* The first render of a list whose rows are given the height 0.
InitZeroHeight ==
  /\ QueueInit
  /\ ShuffleIdle
  /\ itemHeight = 0
  /\ totalItems \in 0..MaxItems
  /\ bufferCount \in BufferCounts
  /\ attached \in BOOLEAN
  /\ scrollTop = 0
  /\ containerHeight = 0
  /\ prevTotalItems = totalItems
  /\ domScrollTop = 0
  /\ effectPending = FALSE
  /\ clientHeight \in (IF attached THEN 0..MaxHeight ELSE {0})
  /\ scrollUpdates = <<>>
  /\ effectOutcome = "none"
  /\ otherInstance = IdleInstance

SpecZeroHeight == InitZeroHeight /\ [][NextScroll]_vars

\* ---- calls applied one at a time, a render after each ----

\* The four state cells as one value.
State ==
  [currentSong |-> currentSong, queue |-> queue,
   originalQueue |-> originalQueue, isShuffled |-> isShuffled]

\* The states the render after the single call c can give when c is made in
\* the rendered state st: toggleShuffle closes over st.originalQueue and its
\* updater runs on st.isShuffled.
Apply(st, c) ==
  CASE c.op = "playSong" ->
         {[currentSong |-> c.song,
           queue |-> NewQueue(c.song, c.src),
           originalQueue |-> NewQueue(c.song, c.src),
           isShuffled |-> FALSE]}
    [] c.op = "playNext" ->
         {[st EXCEPT !.queue = q, !.originalQueue = o] :
            q \in ApplyUpdate(st.queue, Cons(c.song)),
            o \in ApplyUpdate(st.originalQueue, Cons(c.song))}
    [] c.op = "toggleShuffle" ->
         {[st EXCEPT !.queue = q, !.isShuffled = ToggleResult(st.isShuffled)] :
            q \in ApplyUpdate(st.queue,
                              ToggleInner(st.isShuffled, st.originalQueue))}

\* The states the calls cs can give when each is rendered before the next
\* is made.
RECURSIVE OneAtATime(_, _)
OneAtATime(sts, cs) ==
  IF cs = <<>> THEN sts
  ELSE OneAtATime(UNION {Apply(st, Head(cs)) : st \in sts}, Tail(cs))

\* ---- properties ----

Range(s) == {s[i] : i \in DOMAIN s}
Reverse(s) == [i \in 1..Len(s) |-> s[Len(s) + 1 - i]]
Count(s, x) == Cardinality({i \in DOMAIN s : s[i] = x})
IsPermutation(a, b) ==
  Len(a) = Len(b) /\ \A x \in Range(a) \cup Range(b) : Count(a, x) = Count(b, x)

\* The last handler made the single call op and React has rendered it.
Handled(op) == rendered /\ Len(calls) = 1 /\ calls[1].op = op
SongsOf(cs) == [i \in DOMAIN cs |-> cs[i].song]
AllPlayNext(cs) == \A i \in DOMAIN cs : cs[i].op = "playNext"

\* C1: after playSong(S[i], S), for a source S of distinct identifiers, the
\* current song is S[i] and the queue is exactly the songs of S after
\* position i, in order.
C1_PlaySongQueue ==
  Handled("playSong") =>
    \A i \in DOMAIN calls[1].src :
      calls[1].src[i] = calls[1].song =>
        /\ currentSong = calls[1].src[i]
        /\ queue = SubSeq(calls[1].src, i + 1, Len(calls[1].src))

\* playSong on the middle song of a three-song source, called while
\* shuffled: one song is left in the queue.
C1_Witness ==
  /\ Handled("playSong")
  /\ wasShuffled
  /\ Len(calls[1].src) = 3
  /\ calls[1].song = calls[1].src[2]
  /\ currentSong = calls[1].src[2]
  /\ queue = <<calls[1].src[3]>>

\* C2 (as claimed): after playSong(track, S) with track not in S, the
\* current song is track and queue and originalQueue are empty.
C2_AbsentTrackEmptyQueue ==
  (Handled("playSong") /\ calls[1].song \notin Range(calls[1].src)) =>
    /\ currentSong = calls[1].song
    /\ queue = <<>>
    /\ originalQueue = <<>>

\* C3: after playSong, from a shuffled state or not, isShuffled is false and
\* originalQueue equals the new queue, which is a tail of the source: nothing
\* of the previous queue or originalQueue is left.
C3_PlaySongResets ==
  Handled("playSong") =>
    /\ ~isShuffled
    /\ originalQueue = queue
    /\ \E k \in 0..Len(calls[1].src) :
         queue = SubSeq(calls[1].src, k + 1, Len(calls[1].src))

\* playSong called while shuffled, leaving a queue of two songs.
C3_Witness ==
  /\ Handled("playSong")
  /\ wasShuffled
  /\ ~isShuffled
  /\ Len(queue) = 2
  /\ originalQueue = queue

C5_RapidPlayNext ==
  [][(~rendered /\ rendered' /\ AllPlayNext(calls)) =>
       /\ queue' = Reverse(SongsOf(calls)) \o queue
       /\ originalQueue' = Reverse(SongsOf(calls)) \o originalQueue]_vars

\* Three playNext calls of three different songs in one handler, rendered.
C5_Witness ==
  /\ rendered
  /\ Len(calls) = 3
  /\ AllPlayNext(calls)
  /\ Cardinality(Range(SongsOf(calls))) = 3
  /\ queue = <<calls[3].song, calls[2].song, calls[1].song>>

\* C6: toggleShuffle on followed directly by toggleShuffle off gives back
\* the queue as it was before the first of the two, unshuffled.
C6_ToggleTwiceRestores ==
  (Handled("toggleShuffle") /\ wasShuffled /\ inserted = <<>>) =>
    /\ ~isShuffled
    /\ queue = preShuffleQueue

\* Shuffle switched on and off again over a queue of three songs.
C6_Witness ==
  /\ Handled("toggleShuffle")
  /\ wasShuffled
  /\ inserted = <<>>
  /\ Len(preShuffleQueue) = 3
  /\ Cardinality(Range(preShuffleQueue)) = 3
  /\ queue = preShuffleQueue

C8_CurrentNotInQueue == currentSong \notin Range(queue)

\* C8 (amended): playSong leaves the current song outside queue and
\* originalQueue, and every call other than playNext of the current song
\* keeps it outside.
C8_CurrentNotInQueueUnlessPlayedNext ==
  [][/\ (rendered' /\ calls'[1].op = "playSong") =>
          currentSong' \notin Range(queue') \cup Range(originalQueue')
     /\ (/\ rendered'
         /\ currentSong \notin Range(queue) \cup Range(originalQueue)
         /\ calls' # <<Call("playNext", currentSong, <<>>, FALSE)>>) =>
          currentSong' \notin Range(queue') \cup Range(originalQueue')]_vars

\* A song other than the current one inserted under shuffle: the current
\* song is still not queued.
C8_Witness ==
  /\ Handled("playNext")
  /\ wasShuffled
  /\ currentSong # NoSong
  /\ calls[1].song # currentSong
  /\ Len(queue) = 3
  /\ currentSong \notin Range(queue)

C10_ShuffleOff ==
  [][(/\ rendered'
      /\ Len(calls') = 1
      /\ calls'[1].op = "toggleShuffle"
      /\ isShuffled) =>
       /\ queue' = originalQueue
       /\ originalQueue' = originalQueue
       /\ ~isShuffled']_vars

\* Shuffle switched off after two insertions: the queue is originalQueue,
\* in an order the shuffled queue did not have.
C10_Witness ==
  /\ Handled("toggleShuffle")
  /\ wasShuffled
  /\ ~isShuffled
  /\ Len(inserted) = 2
  /\ queue = originalQueue
  /\ Len(queue) = 3

\* C11 (as claimed): whenever isShuffled is false, originalQueue equals
\* queue element for element.
C11_UnshuffledInSync == ~isShuffled => originalQueue = queue

\* C12 (as claimed): whenever isShuffled is true, queue is a permutation of
\* originalQueue: the two hold the same songs, each as many times.
C12_ShuffledIsPermutation == isShuffled => IsPermutation(queue, originalQueue)

\* C13 (as claimed): toggleShuffle, in either direction, leaves currentSong
\* as it is and does not put the current song into a queue that did not hold
\* it.
C13_ToggleKeepsCurrentSong ==
  [][(/\ rendered'
      /\ Len(calls') = 1
      /\ calls'[1].op = "toggleShuffle") =>
       /\ currentSong' = currentSong
       /\ currentSong \notin Range(queue) => currentSong' \notin Range(queue')]_vars

\* C14: a playNext call leaves currentSong and isShuffled as they are, in
\* every state, those reached by handlers that make several calls included.
C14_PlayNextKeepsCurrentAndFlag ==
  [][(/\ rendered'
      /\ Len(calls') = 1
      /\ calls'[1].op = "playNext") =>
       /\ currentSong' = currentSong
       /\ isShuffled' = isShuffled]_vars

\* playNext called under shuffle while a song is playing.
C14_Witness ==
  /\ Handled("playNext")
  /\ wasShuffled
  /\ isShuffled
  /\ currentSong # NoSong
  /\ queue[1] = calls[1].song

\* C15 (as claimed): the state rendered after the calls of one handler is a
\* state the same calls give when made one at a time with a render after
\* each.
C15_BatchIsSequential ==
  [][(~rendered /\ rendered') => State' \in OneAtATime({State}, calls)]_vars

\* C16: in every reachable state every operation can be called and the
\* render that follows completes with a well-formed state: a handler can
\* call playSong, playNext and toggleShuffle whatever was rendered, and the
\* pending calls of a handler always have a render.
C16_AlwaysEnabled ==
  /\ currentSong \in Songs \cup {NoSong}
  /\ queue \in Seq(Songs)
  /\ originalQueue \in Seq(Songs)
  /\ isShuffled \in BOOLEAN
  /\ ~rendered => ENABLED Render
  /\ rendered =>
       /\ \A song \in Songs : ENABLED callPlaySong(song)
       /\ \A eager \in BOOLEAN : ENABLED callToggleShuffle(eager)
       /\ (Len(queue) < MaxQueue /\ Len(originalQueue) < MaxQueue) =>
            \A song \in Songs : ENABLED callPlayNext(song)

\* toggleShuffle called in the initial state and rendered: no current song,
\* an empty queue, shuffled.
C16_Witness ==
  /\ Handled("toggleShuffle")
  /\ currentSong = NoSong
  /\ queue = <<>>
  /\ originalQueue = <<>>
  /\ isShuffled

\* The array shuffle returns, and the array it was called with.
Returned == memory[resultRef]
Distinct(s) == \A a, b \in DOMAIN s : a # b => s[a] # s[b]
Orderings(s) == {p \in [DOMAIN s -> Range(s)] : IsPermutation(p, s)}
RECURSIVE Factorial(_)
Factorial(n) == IF n <= 1 THEN 1 ELSE n * Factorial(n - 1)
\* The values of j of a finished run over n elements, by loop index.
ChoicesOf(js, n) == [k \in 1..(n - 1) |-> js[n - k]]

\* C17: whatever the input and the random choices, shuffle returns a new
\* array that is a permutation of the input (same length, every element as
\* many times), no statement changes the input array, and an input of at
\* most one element is returned as it is.
C17_ShuffleReturnsPermutation ==
  [][/\ memory'.array = memory.array
     /\ pc' = "done" =>
          /\ resultRef' # "array"
          /\ Len(Returned') = Len(memory.array)
          /\ IsPermutation(Returned', memory.array)
          /\ Len(memory.array) <= 1 => Returned' = memory.array]_vars

\* A run over three elements, two of them equal, that returns another
\* order and leaves the input as it was.
C17_Witness ==
  /\ pc = "done"
  /\ Len(memory.array) = 3
  /\ Cardinality(Range(memory.array)) = 2
  /\ Returned # memory.array
  /\ IsPermutation(Returned, memory.array)

\* C18: the loop starts at the last index and goes down by one to 1; each
\* round swaps position i with a position j of 0..i; and over n different
\* elements the n! runs give the n! permutations, each exactly once: the
\* result of a run is given by no other sequence of choices and every
\* permutation is the result of some run.
C18_UnbiasedFisherYates ==
  [][/\ (pc = "copy" /\ pc' = "loop") =>
          loopIndex' = Len(memory.array) - 1
     /\ (pc = "loop" /\ pc' = "loop") =>
          /\ loopIndex \in 1..(Len(memory.array) - 1)
          /\ loopIndex' = loopIndex - 1
          /\ Len(picks') = Len(picks) + 1
          /\ LET i == loopIndex + 1
                 j == picks'[Len(picks')] + 1
             IN  /\ j \in 1..i
                 /\ Returned'[i] = Returned[j]
                 /\ Returned'[j] = Returned[i]
                 /\ \A k \in DOMAIN Returned :
                      k \notin {i, j} => Returned'[k] = Returned[k]
     /\ (pc = "loop" /\ pc' = "done") =>
          /\ loopIndex <= 0
          /\ Len(picks) = Max(Len(memory.array) - 1, 0)
     /\ (pc' = "done" /\ Distinct(memory.array)) =>
          LET n == Len(memory.array)
          IN  /\ Returned' = shuffle(memory.array, ChoicesOf(picks', n))
              /\ \A rnd \in RandomChoices(n) :
                   shuffle(memory.array, rnd) = Returned' =>
                     rnd = ChoicesOf(picks', n)
              /\ \A p \in Orderings(memory.array) :
                   \E rnd \in RandomChoices(n) : shuffle(memory.array, rnd) = p
              /\ Cardinality(RandomChoices(n)) = Factorial(n)]_vars

\* A finished run over three different elements in which both rounds
\* picked the position they were at: the input order is a result too.
C18_Witness ==
  /\ pc = "done"
  /\ Len(memory.array) = 3
  /\ Distinct(memory.array)
  /\ picks = <<2, 1>>
  /\ Returned = memory.array

\* q is Math.floor(a / b) and v is Math.ceil(a / b), by their bounds.
IsFloor(q, a, b) == q * b <= a /\ a < (q + 1) * b
IsCeil(v, a, b) == (v - 1) * b < a /\ a <= v * b

\* C19: with q the whole number of items above the scroll offset,
\* startIndex is q - bufferCount but not less than 0, and endIndex is
\* q + visibleCount + bufferCount but not more than totalItems - 1;
\* visibleCount is the number of items it takes to cover the measured
\* height.
C19_WindowFormulas ==
  \E q \in 0..scrollTop :
    /\ IsFloor(q, scrollTop, itemHeight)
    /\ startIndex = (IF q - bufferCount >= 0 THEN q - bufferCount ELSE 0)
    /\ endIndex = (IF q + visibleCount + bufferCount <= totalItems - 1
                   THEN q + visibleCount + bufferCount
                   ELSE totalItems - 1)
    /\ containerHeight > 0 => IsCeil(visibleCount, containerHeight, itemHeight)

\* Scrolled into the middle of a row of a measured list, with a buffer: no
\* end of the window is cut by the list.
C19_Witness ==
  /\ containerHeight > 0
  /\ bufferCount > 0
  /\ scrollTop % itemHeight # 0
  /\ startIndex > 0
  /\ endIndex < totalItems - 1
  /\ endIndex = Floor(scrollTop, itemHeight) + visibleCount + bufferCount

C21_RangeOrdered == (totalItems > 0 /\ itemHeight > 0) => startIndex <= endIndex

\* C22: whenever totalItems = 0, for any scroll offset, the derived range is
\* the empty range startIndex = 0, endIndex = -1 (endIndex = startIndex - 1).
C22_EmptyListEmptyRange ==
  totalItems = 0 => startIndex = 0 /\ endIndex = -1 /\ endIndex = startIndex - 1

\* C23: in every reachable state with itemHeight > 0, startIndex is never
\* below 0 and endIndex is never above totalItems - 1, for any scroll offset
\* and any bufferCount, a buffer larger than the list included.
C23_RangeWithinList ==
  itemHeight > 0 => startIndex >= 0 /\ endIndex <= totalItems - 1

\* A scrolled list shorter than its buffer, both clamps at work.
C23_Witness ==
  /\ totalItems > 0
  /\ bufferCount > totalItems
  /\ scrollTop > 0
  /\ Floor(scrollTop, itemHeight) - bufferCount < 0
  /\ Floor(scrollTop, itemHeight) + visibleCount + bufferCount > totalItems - 1
  /\ startIndex = 0
  /\ endIndex = totalItems - 1

\* The maximum scroll offset of the claims: max(0, totalItems * itemHeight -
\* containerHeight), the maxScrollTop of the item-count effect.
MaxScrollOffset == Max(0, totalItems * itemHeight - containerHeight)

\* C24: with itemHeight > 0 and totalItems > 0, scrolling to the maximum
\* offset yields endIndex = totalItems - 1 and startIndex <= endIndex.
C24_ScrollToEndShowsLastRow ==
  [][(totalItems > 0 /\ itemHeight > 0 /\ onScroll(MaxScrollOffset))
       => (endIndex = totalItems - 1 /\ startIndex <= endIndex)']_vars

\* C25: when totalItems has changed and scrollTop is greater than
\* max(0, totalItems * itemHeight - containerHeight), the item-count effect
\* sets scrollTop to 0 and the scroll position of the container, when there
\* is one, to 0; when scrollTop is not greater, it leaves scrollTop as it is.
C25_ItemCountEffect ==
  [][(resetScrollEffect /\ totalItems # prevTotalItems)
       => IF scrollTop > MaxScrollOffset
          THEN scrollTop' = 0 /\ (attached => domScrollTop' = 0)
          ELSE scrollTop' = scrollTop /\ domScrollTop' = domScrollTop]_vars

\* The effect has just brought a scrolled container back to the top.
C25_Witness ==
  /\ effectOutcome = "reset"
  /\ attached
  /\ containerHeight > 0
  /\ totalItems > 0
  /\ scrollTop = 0
  /\ domScrollTop = 0

\* The effect has just left a scrolled list where it was.
C25_WitnessKept ==
  /\ effectOutcome = "kept"
  /\ attached
  /\ scrollTop > 0

\* C26: scrollToIndex(index) sets the hook's scrollTop to index * itemHeight
\* and the scroll position of the container to the same value, so that
\* after the call the two are equal.
C26_ScrollToIndexInSync ==
  [][\A index \in 0..(totalItems - 1) :
       (attached /\ scrollToIndex(index))
         => /\ scrollTop' = index * itemHeight
            /\ domScrollTop' = index * itemHeight
            /\ scrollTop' = domScrollTop']_vars

\* The derived values as JavaScript numbers are the integers of
\* visibleCount, startIndex, endIndex, offsetY and totalHeight whenever
\* itemHeight > 0.
JsValuesAreTheIntegers ==
  itemHeight > 0 =>
    /\ jsVisibleCount = Num(visibleCount)
    /\ jsStartIndex = Num(startIndex)
    /\ jsEndIndex = Num(endIndex)
    /\ jsOffsetY = Num(offsetY)
    /\ jsTotalHeight = Num(totalHeight)

\* C27: with itemHeight = 0, totalHeight is 0 and the derived range is
\* empty, and no result of a division by zero (NaN or Infinity) is used in
\* the derived indices, for any scroll offset, measured or not.
C27_ZeroItemHeight ==
  itemHeight = 0 =>
    /\ jsTotalHeight = Num(0)
    /\ IsNum(jsStartIndex) /\ IsNum(jsEndIndex)
    /\ jsEndIndex.n < jsStartIndex.n

\* C28: in every reachable state offsetY equals startIndex * itemHeight and
\* totalHeight equals totalItems * itemHeight, so the scrollable extent is
\* that of the full list however many rows are in the window: it is never
\* less than the height of the rows of the window, which lie within it.
C28_OffsetAndExtent ==
  /\ offsetY = startIndex * itemHeight
  /\ totalHeight = totalItems * itemHeight
  /\ totalHeight >= (endIndex - startIndex + 1) * itemHeight
  /\ startIndex <= endIndex
       => offsetY + (endIndex - startIndex + 1) * itemHeight <= totalHeight

\* A window strictly inside the list, scrolled to a position between rows.
C28_Witness ==
  /\ startIndex > 0
  /\ startIndex <= endIndex
  /\ endIndex < totalItems - 1
  /\ scrollTop % itemHeight # 0
  /\ offsetY > 0
  /\ offsetY # scrollTop
  /\ totalHeight > (endIndex - startIndex + 1) * itemHeight

\* C29: when several scroll events are handled before a render, the
\* scrollTop the next range is derived from is the offset of the last one,
\* and the render leaves the state a render after that event alone would
\* leave: the earlier offsets have no effect.
C29_LastScrollWins ==
  [][renderScroll =>
       LET last == scrollUpdates[Len(scrollUpdates)]
       IN  /\ scrollTop' = last
           /\ startIndex' = Max(0, Floor(last, itemHeight) - bufferCount)
           /\ endIndex' = Min(totalItems - 1,
                              Floor(last, itemHeight) + visibleCount + bufferCount)
           /\ domScrollTop' = last
           /\ UNCHANGED <<itemHeight, totalItems, bufferCount, containerHeight,
                          prevTotalItems, attached, effectPending, clientHeight>>]_vars

\* Three scroll events await the render, the last at another offset than
\* the first two and than the rendered one.
C29_Witness ==
  /\ Len(scrollUpdates) = 3
  /\ scrollUpdates[3] # scrollUpdates[1]
  /\ scrollUpdates[3] # scrollUpdates[2]
  /\ scrollUpdates[3] # scrollTop
  /\ ENABLED renderScroll

\* C30: while no positive container height has been measured
\* (containerHeight = 0) the range is derived with the fallback
\* visibleCount = 10, so for totalItems > 0 at scrollTop 0 it is not empty;
\* after a positive measurement visibleCount = ceil(containerHeight /
\* itemHeight).
C30_FallbackVisibleCount ==
  /\ containerHeight >= 0
  /\ containerHeight = 0 =>
       /\ visibleCount = 10
       /\ (totalItems > 0 /\ scrollTop = 0) =>
            /\ startIndex = 0
            /\ endIndex = Min(totalItems - 1, 10 + bufferCount)
            /\ startIndex <= endIndex
  /\ containerHeight > 0 => IsCeil(visibleCount, containerHeight, itemHeight)

\* A measured container whose height is not a whole number of rows.
C30_Witness ==
  /\ attached
  /\ containerHeight > 0
  /\ containerHeight = clientHeight
  /\ containerHeight % itemHeight # 0
  /\ visibleCount = (containerHeight \div itemHeight) + 1
  /\ totalItems > 0

\* An unmeasured list at the top, after the item-count effect has run, longer
\* than the window the fallback gives.
C30_WitnessFallback ==
  /\ containerHeight = 0
  /\ scrollTop = 0
  /\ effectOutcome # "none"
  /\ startIndex = 0
  /\ endIndex = 10 + bufferCount
  /\ endIndex < totalItems - 1

\* ---- the viewport hook: measurements, instances, coverage ----

\* A step of one of the two measurements of the container.
Measurement == updateHeight \/ \E height \in 0..MaxHeight : resizeObserver(height)

\* C31: once a measurement has made containerHeight positive it stays
\* positive; a measurement that reads the height 0 is ignored, and
\* containerHeight changes only when a measurement reads a positive height,
\* which it then holds.
C31_MeasurementAuthoritative ==
  [][/\ containerHeight > 0 => containerHeight' > 0
     /\ (Measurement /\ clientHeight' = 0) => containerHeight' = containerHeight
     /\ containerHeight' # containerHeight
          => Measurement /\ clientHeight' > 0 /\ containerHeight' = clientHeight']_vars

\* A measured container that has since been laid out with the height 0.
C31_Witness ==
  /\ attached
  /\ containerHeight > 0
  /\ clientHeight = 0

\* The range of an instance computed from its record is the range the hook
\* derives from the variables.
RangeOfThisInstance ==
  /\ VisibleCountOf(ThisInstance) = visibleCount
  /\ StartIndexOf(ThisInstance) = startIndex
  /\ EndIndexOf(ThisInstance) = endIndex

RowsInViewport ==
  {r \in 0..(totalItems - 1) :
     /\ r * itemHeight < scrollTop + containerHeight
     /\ (r + 1) * itemHeight > scrollTop}

\* C34: with a measured viewport (containerHeight > 0), itemHeight > 0 and
\* scrollTop >= 0, every row of the list that intersects the viewport lies
\* within startIndex..endIndex.
C34_WindowCoversViewport ==
  (containerHeight > 0 /\ itemHeight > 0 /\ scrollTop >= 0)
    => \A r \in RowsInViewport : startIndex <= r /\ r <= endIndex

\* A viewport between rows without buffer: the window has no row to spare
\* at either end.
C34_Witness ==
  /\ containerHeight > 0
  /\ scrollTop % itemHeight # 0
  /\ bufferCount = 0
  /\ startIndex > 0
  /\ endIndex < totalItems - 1
  /\ startIndex \in RowsInViewport
  /\ endIndex \in RowsInViewport

\* C35: after totalItems has changed to a value > 0 and the item-count
\* effect has run and the hook has rendered again, the derived range is not
\* empty (startIndex <= endIndex), for every bufferCount and measured or
\* not.
C35_RangeAfterItemCountEffect ==
  (effectOutcome \in {"reset", "kept"} /\ totalItems > 0)
    => startIndex <= endIndex

\* C36: in the hook that provides scrollToIndex, after scrollToIndex(index)
\* for a row of the list, with a mounted container, the row lies within the
\* range startIndex..endIndex that hook derives, for every bufferCount and
\* measured or not.
C36_ScrollToIndexShowsRow ==
  [][\A index \in 0..(totalItems - 1) :
       (attached /\ itemHeight > 0 /\ scrollToIndex(index))
         => (startIndex <= index /\ index <= starterEndIndex)']_vars

\* The same for the range of the solution hook.
ScrollToIndexShowsRowInSolution ==
  [][\A index \in 0..(totalItems - 1) :
       (attached /\ scrollToIndex(index))
         => (startIndex <= index /\ index <= endIndex)']_vars

\* C37: a measurement of the container changes only containerHeight: it
\* leaves scrollTop as it is, and the effect that runs after it does not
\* reset, even when scrollTop exceeds max(0, totalItems * itemHeight -
\* containerHeight) for the new containerHeight; scrollTop changes only
\* through onScroll, scrollToIndex and the reset that follows a change of
\* totalItems.
C37_MeasurementKeepsScrollTop ==
  [][/\ Measurement => UNCHANGED <<scrollTop, totalItems, prevTotalItems>>
     /\ (resetScrollEffect /\ totalItems = prevTotalItems)
          => UNCHANGED <<scrollTop, domScrollTop, containerHeight>>
     /\ scrollTop' # scrollTop
          => \/ \E offset \in 0..MaxScrollTop : onScroll(offset)
             \/ \E index \in 0..(totalItems - 1) : scrollToIndex(index)
             \/ resetScrollEffect /\ totalItems # prevTotalItems]_vars

\* The effect has run after a measurement that left scrollTop beyond the
\* maximum for the new containerHeight.
C37_Witness ==
  /\ effectOutcome = "skipped after measuring"
  /\ containerHeight > 0
  /\ scrollTop > MaxScrollOffset
  /\ scrollTop > 0

====
